---- MODULE Spec2Model ----
(* Model of the migration engine of src/xormigrate.go (package xormigrate):  *)
(* the registry held by a Xormigrate value, the rows of the migration table, *)
(* and the top-level operations Migrate, MigrateTo, RollbackLast, RollbackTo *)
(* and RollbackMigration.  Every operation is one action; what happened      *)
(* inside the last call is kept in lastLog.                                  *)
EXTENDS Integers, Sequences, FiniteSets, TLC

\* ---------------------------------------------------------------- bounds
\* longest registry handed to New
MaxMigs == 3

\* ------------------------------------------------------------- constants
initSchemaMigrationId == "SCHEMA_INIT"

\* identifiers a caller may give to a migration (the reserved one and the
\* empty one included)
IDs == {"A", "B", "C", "D", initSchemaMigrationId, ""}

\* type Migration struct: ID, Migrate (always set), Rollback (may be nil;
\* TRUE = a function is set)
Migration == [ID : IDs, Rollback : BOOLEAN]

\* first position of identifier id in the list r, 0 if it has none
FirstPos(r, id) ==
    IF \E i \in 1..Len(r) : r[i].ID = id
    THEN CHOOSE i \in 1..Len(r) : r[i].ID = id /\ \A j \in 1..(i - 1) : r[j].ID # id
    ELSE 0

\* The engine only compares identifiers with each other, with the reserved
\* one and with the empty one, so the ordinary ones are named in the order
\* in which they first appear: "A" before "B" before "C" before "D".
Named(r) ==
    /\ FirstPos(r, "B") > 0 => (FirstPos(r, "A") > 0 /\ FirstPos(r, "A") < FirstPos(r, "B"))
    /\ FirstPos(r, "C") > 0 => (FirstPos(r, "B") > 0 /\ FirstPos(r, "B") < FirstPos(r, "C"))
    /\ FirstPos(r, "D") > 0 => (FirstPos(r, "C") > 0 /\ FirstPos(r, "C") < FirstPos(r, "D"))

\* the migration lists New is given: up to MaxMigs migrations, at most one
\* of them without a Rollback function
Registries ==
    {r \in UNION {[1..n -> Migration] : n \in 0..MaxMigs} :
        /\ Named(r)
        /\ Cardinality({i \in 1..Len(r) : ~r[i].Rollback}) <= 1}

VARIABLES
    migrations,    \* x.migrations
    initSchema,    \* x.initSchema # nil
    tableExists,   \* the migration table exists in the database
    store,         \* rows of the migration table (their id column), in insertion order
    schema,        \* committed effects of the actions run through tx
    lastOp,        \* the last top-level call,
    lastArg,       \*   its migrationID argument,
    lastPos,       \*   the registry position of its *Migration argument,
    lastErr,       \*   the error it returned,
    lastLog,       \*   the actions, writes and session calls it made, in order,
    storeBefore,   \*   the rows when it was called,
    again,         \*   whether it is a Migrate right after a Migrate that returned nil,
    resumed        \*   the position at which the Migrate right before it failed, if it is
                   \*   a Migrate right after one in which a migration function failed

vars == <<migrations, initSchema, tableExists, store, schema, lastOp, lastArg,
          lastPos, lastErr, lastLog, storeBefore, again, resumed>>

\* ---------------------------------------------------------------- errors
Err(k, id) == [kind |-> k, ID |-> id]
Ok == Err("ok", "")
ReservedIDError(id) == Err("ReservedIDError", id)
DuplicatedIDError(id) == Err("DuplicatedIDError", id)
ErrRollbackImpossible == Err("ErrRollbackImpossible", "")
ErrNoMigrationDefined == Err("ErrNoMigrationDefined", "")
ErrMissingID == Err("ErrMissingID", "")
ErrNoRunMigration == Err("ErrNoRunMigration", "")
ErrMigrationIDDoesNotExist == Err("ErrMigrationIDDoesNotExist", "")
\* an error returned by a caller-supplied function
FuncError == Err("FuncError", "")
\* an error returned by the database
DbError == Err("DbError", "")

\* ------------------------------------------------- what a call can meet
\* At most one thing goes wrong in a call: the caller-supplied function of
\* the entry at position `at` fails, or the InitSchemaFunc fails, or the
\* call number `at` that the engine makes on x.db returns an error.
NoFault == [kind |-> "none", at |-> 0]
FuncFault(i) == [kind |-> "func", at |-> i]
InitFault == [kind |-> "init", at |-> 0]
DbFault(k) == [kind |-> "db", at |-> k]
Faults == {NoFault, InitFault} \cup {FuncFault(i) : i \in 1..Len(migrations)}

\* ----------------------------------------------------- the running call
\* c.store, c.table: the database as the engine x.db sees it (every x.db
\* call runs in a session of its own and is durable when it returns);
\* c.tx: state of the session tx; c.pend: what the functions did through tx;
\* c.schema: committed effects; c.log: events so far; c.err: error to return;
\* c.fault: the failure of x.db the call meets, if any
Event(e, p, id, ok) == [ev |-> e, pos |-> p, id |-> id, ok |-> ok]

Start == [store |-> store, table |-> tableExists, schema |-> schema,
          tx |-> "none", pend |-> <<>>, log |-> <<>>, err |-> Ok,
          fault |-> NoFault]

\* the call that meets fault f
StartWith(f) == [Start EXCEPT !.fault = f]

Fail(c, e) == [c EXCEPT !.err = e]
Logged(c, e) == [c EXCEPT !.log = Append(@, e)]

\* the calls on x.db
DbEvents == {"Sync2", "Count", "CountAll", "Insert", "Delete"}

\* the next call on x.db is the one that returns an error
DbFails(c) ==
    /\ c.fault.kind = "db"
    /\ c.fault.at = 1 + Cardinality({k \in 1..Len(c.log) : c.log[k].ev \in DbEvents})

\* number of rows whose id is `id`
RECURSIVE CountID(_, _)
CountID(s, id) ==
    IF s = <<>> THEN 0
    ELSE (IF Head(s) = id THEN 1 ELSE 0) + CountID(Tail(s), id)

\* the rows without those whose id is `id`
RECURSIVE WithoutID(_, _)
WithoutID(s, id) ==
    IF s = <<>> THEN <<>>
    ELSE IF Head(s) = id THEN WithoutID(Tail(s), id)
    ELSE <<Head(s)>> \o WithoutID(Tail(s), id)

\* effects of a committed transaction on the schema
RECURSIVE ApplyPend(_, _)
ApplyPend(sch, p) ==
    IF p = <<>> THEN sch
    ELSE ApplyPend(IF Head(p).op = "add" THEN sch \cup {Head(p).id}
                   ELSE sch \ {Head(p).id}, Tail(p))

\* tx := x.db.NewSession(); tx.Begin()
Begin(c) == Logged([c EXCEPT !.tx = "active"], Event("Begin", 0, "", TRUE))

\* tx.Commit()
Commit(c) ==
    Logged([c EXCEPT !.tx = "committed", !.schema = ApplyPend(@, c.pend),
                     !.pend = <<>>],
           Event("Commit", 0, "", TRUE))

\* defer tx.Close(): a session closed before Commit rolls back
Close(c) ==
    IF c.tx = "active"
    THEN Logged([c EXCEPT !.tx = "none", !.pend = <<>>], Event("TxRollback", 0, "", TRUE))
    ELSE [c EXCEPT !.tx = "none"]

\* ------------------------------------------------------ registry checks
\* the test that looks at the list only
hasMigrations_listOnly == Len(migrations) > 0

hasMigrations == initSchema \/ Len(migrations) > 0

RECURSIVE ReservedScan(_)
ReservedScan(i) ==
    IF i > Len(migrations) THEN Ok
    ELSE IF migrations[i].ID = initSchemaMigrationId
         THEN ReservedIDError(migrations[i].ID)
         ELSE ReservedScan(i + 1)

\* the scan that misses the first migration
checkReservedID_fromSecond == ReservedScan(2)

checkReservedID == ReservedScan(1)

\* the scan that never fills its lookup
RECURSIVE DuplicatedScan_noInsert(_, _)
DuplicatedScan_noInsert(i, lookup) ==
    IF i > Len(migrations) THEN Ok
    ELSE IF migrations[i].ID \in lookup
         THEN DuplicatedIDError(migrations[i].ID)
         ELSE DuplicatedScan_noInsert(i + 1, lookup)

RECURSIVE DuplicatedScan(_, _)
DuplicatedScan(i, lookup) ==
    IF i > Len(migrations) THEN Ok
    ELSE IF migrations[i].ID \in lookup
         THEN DuplicatedIDError(migrations[i].ID)
         ELSE DuplicatedScan(i + 1, lookup \cup {migrations[i].ID})

checkDuplicatedID == DuplicatedScan(1, {})

\* the check that finds every identifier
checkIDExist_always(migrationID) == Ok

checkIDExist(migrationID) ==
    IF \E i \in 1..Len(migrations) : migrations[i].ID = migrationID
    THEN Ok ELSE ErrMigrationIDDoesNotExist

\* --------------------------------------------------------- record store
\* x.db.Sync2(new(Migration))
createMigrationTableIfNotExists(c) ==
    IF DbFails(c) THEN Fail(Logged(c, Event("Sync2", 0, "", FALSE)), DbError)
    ELSE Logged([c EXCEPT !.table = TRUE], Event("Sync2", 0, "", TRUE))

\* the count that finds nothing
migrationDidRun_never(c, id) == FALSE

\* x.db.In("id", m.ID).Count(&Migration{}); an error (no such table, or
\* the failure the call meets) is turned into false
migrationDidRun(c, id) ==
    IF DbFails(c) \/ ~c.table THEN FALSE ELSE CountID(c.store, id) > 0

\* the call after migrationDidRun(c, id) has returned
counted(c, id) == Logged(c, Event("Count", 0, id, ~DbFails(c) /\ c.table))

\* the test that does not count the rows
canInitializeSchema_noCount(c) == ~migrationDidRun(c, initSchemaMigrationId)

\* x.db.Count(&Migration{}) of canInitializeSchema, its error turned into
\* false as well
canInitializeSchema(c) ==
    IF migrationDidRun(c, initSchemaMigrationId) THEN FALSE
    ELSE LET c1 == counted(c, initSchemaMigrationId)
         IN  IF DbFails(c1) \/ ~c1.table THEN FALSE
             ELSE Len(c1.store) = 0

\* the call after canInitializeSchema(c) has returned
initCounted(c) ==
    LET c1 == counted(c, initSchemaMigrationId)
    IN  IF migrationDidRun(c, initSchemaMigrationId) THEN c1
        ELSE Logged(c1, Event("CountAll", 0, "", ~DbFails(c1) /\ c1.table))

\* the insert that stores no row
insertMigration_lost(c, id) ==
    IF DbFails(c) \/ ~c.table THEN Fail(Logged(c, Event("Insert", 0, id, FALSE)), DbError)
    ELSE Logged(c, Event("Insert", 0, id, TRUE))

\* x.db.Insert(&Migration{ID: id})
insertMigration(c, id) ==
    IF DbFails(c) \/ ~c.table THEN Fail(Logged(c, Event("Insert", 0, id, FALSE)), DbError)
    ELSE Logged([c EXCEPT !.store = Append(@, id)], Event("Insert", 0, id, TRUE))

\* x.db.In("id", m.ID).Delete(&Migration{})
deleteMigration(c, id) ==
    IF DbFails(c) \/ ~c.table THEN Fail(Logged(c, Event("Delete", 0, id, FALSE)), DbError)
    ELSE Logged([c EXCEPT !.store = WithoutID(@, id)], Event("Delete", 0, id, TRUE))

\* ------------------------------------------- caller-supplied functions
\* migration.Migrate(tx)
callMigrate(c, i, f) ==
    IF f = FuncFault(i)
    THEN Fail(Logged(c, Event("Migrate", i, migrations[i].ID, FALSE)), FuncError)
    ELSE Logged([c EXCEPT !.pend = Append(@, [op |-> "add", id |-> migrations[i].ID])],
                Event("Migrate", i, migrations[i].ID, TRUE))

\* the call whose error is dropped
callRollback_swallow(c, i, f) ==
    IF f = FuncFault(i)
    THEN Logged(c, Event("Rollback", i, migrations[i].ID, FALSE))
    ELSE Logged([c EXCEPT !.pend = Append(@, [op |-> "del", id |-> migrations[i].ID])],
                Event("Rollback", i, migrations[i].ID, TRUE))

\* m.Rollback(tx)
callRollback(c, i, f) ==
    IF f = FuncFault(i)
    THEN Fail(Logged(c, Event("Rollback", i, migrations[i].ID, FALSE)), FuncError)
    ELSE Logged([c EXCEPT !.pend = Append(@, [op |-> "del", id |-> migrations[i].ID])],
                Event("Rollback", i, migrations[i].ID, TRUE))

\* x.initSchema(tx)
callInitSchema(c, f) ==
    IF f = InitFault
    THEN Fail(Logged(c, Event("initSchema", 0, initSchemaMigrationId, FALSE)), FuncError)
    ELSE Logged([c EXCEPT !.pend = Append(@, [op |-> "add", id |-> initSchemaMigrationId])],
                Event("initSchema", 0, initSchemaMigrationId, TRUE))

\* ------------------------------------------------------------ the engine
RECURSIVE insertAll(_, _)
insertAll(c, i) ==
    IF i > Len(migrations) THEN c
    ELSE LET c1 == insertMigration(c, migrations[i].ID)
         IN  IF c1.err # Ok THEN c1 ELSE insertAll(c1, i + 1)

\* the initialisation that does not record the reserved identifier
runInitSchema_noSentinel(c, f) ==
    LET c1 == callInitSchema(c, f)
    IN  IF c1.err # Ok THEN c1 ELSE insertAll(c1, 1)

runInitSchema(c, f) ==
    LET c1 == callInitSchema(c, f)
    IN  IF c1.err # Ok THEN c1
        ELSE LET c2 == insertMigration(c1, initSchemaMigrationId)
             IN  IF c2.err # Ok THEN c2 ELSE insertAll(c2, 1)

\* the run that does not look at the ID
runMigration_noIDCheck(c, i, f) ==
    IF ~migrationDidRun(c, migrations[i].ID)
    THEN LET c1 == callMigrate(counted(c, migrations[i].ID), i, f)
         IN  IF c1.err # Ok THEN c1
             ELSE insertMigration(c1, migrations[i].ID)
    ELSE counted(c, migrations[i].ID)

\* the run that records the migration before its function has run
runMigration_insertFirst(c, i, f) ==
    IF migrations[i].ID = "" THEN Fail(c, ErrMissingID)
    ELSE IF ~migrationDidRun(c, migrations[i].ID)
         THEN LET c1 == insertMigration(c, migrations[i].ID)
              IN  IF c1.err # Ok THEN c1
                  ELSE callMigrate(c1, i, f)
         ELSE c

runMigration(c, i, f) ==
    IF migrations[i].ID = "" THEN Fail(c, ErrMissingID)
    ELSE IF ~migrationDidRun(c, migrations[i].ID)
         THEN LET c1 == callMigrate(counted(c, migrations[i].ID), i, f)
              IN  IF c1.err # Ok THEN c1
                  ELSE insertMigration(c1, migrations[i].ID)
         ELSE counted(c, migrations[i].ID)

\* the loop that does not stop at migrationID
RECURSIVE migrateLoop_noBreak(_, _, _, _)
migrateLoop_noBreak(c, i, migrationID, f) ==
    IF i > Len(migrations) THEN c
    ELSE LET c1 == runMigration(c, i, f)
         IN  IF c1.err # Ok THEN c1
             ELSE migrateLoop_noBreak(c1, i + 1, migrationID, f)

\* for _, migration := range x.migrations { ... } of migrate
RECURSIVE migrateLoop(_, _, _, _)
migrateLoop(c, i, migrationID, f) ==
    IF i > Len(migrations) THEN c
    ELSE LET c1 == runMigration(c, i, f)
         IN  IF c1.err # Ok THEN c1
             ELSE IF migrationID # "" /\ migrations[i].ID = migrationID THEN c1
             ELSE migrateLoop(c1, i + 1, migrationID, f)

migrate(c, migrationID, f) ==
    IF ~hasMigrations THEN Fail(c, ErrNoMigrationDefined)
    ELSE IF checkReservedID # Ok THEN Fail(c, checkReservedID)
    ELSE IF checkDuplicatedID # Ok THEN Fail(c, checkDuplicatedID)
    ELSE LET c0 == createMigrationTableIfNotExists(c)
             c1 == Begin(c0)
             c4 == IF initSchema THEN initCounted(c1) ELSE c1
         IN  IF c0.err # Ok THEN c0
             ELSE IF initSchema /\ canInitializeSchema(c1)
             THEN LET c2 == runInitSchema(c4, f)
                  IN  IF c2.err # Ok THEN Close(c2) ELSE Close(Commit(c2))
             ELSE LET c3 == migrateLoop(c4, 1, migrationID, f)
                  IN  IF c3.err # Ok THEN Close(c3) ELSE Close(Commit(c3))

\* the rollback that takes a missing Rollback function for one that does nothing
rollbackMigration_nilNoop(c, i, f) ==
    IF ~migrations[i].Rollback THEN deleteMigration(c, migrations[i].ID)
    ELSE LET c1 == callRollback(c, i, f)
         IN  IF c1.err # Ok THEN c1
             ELSE deleteMigration(c1, migrations[i].ID)

rollbackMigration(c, i, f) ==
    IF ~migrations[i].Rollback THEN Fail(c, ErrRollbackImpossible)
    ELSE LET c1 == callRollback(c, i, f)
         IN  IF c1.err # Ok THEN c1
             ELSE deleteMigration(c1, migrations[i].ID)

\* the search that returns the first migration that did run
RECURSIVE FirstRun(_, _)
FirstRun(c, i) ==
    IF i > Len(migrations) THEN 0
    ELSE IF migrationDidRun(c, migrations[i].ID) THEN i
    ELSE FirstRun(c, i + 1)

getLastRunMigration_first(c, i) == FirstRun(c, 1)

\* position of the last migration of the registry that did run, 0 if none
RECURSIVE getLastRunMigration(_, _)
getLastRunMigration(c, i) ==
    IF i < 1 THEN 0
    ELSE IF migrationDidRun(c, migrations[i].ID) THEN i
    ELSE getLastRunMigration(counted(c, migrations[i].ID), i - 1)

\* the call after getLastRunMigration has returned
RECURSIVE lastRunCounted(_, _)
lastRunCounted(c, i) ==
    IF i < 1 THEN c
    ELSE IF migrationDidRun(c, migrations[i].ID) THEN counted(c, migrations[i].ID)
    ELSE lastRunCounted(counted(c, migrations[i].ID), i - 1)

\* func (x *Xormigrate) RollbackMigration(m *Migration), m = migrations[i]
doRollbackMigration(c, i, f) ==
    LET c1 == rollbackMigration(Begin(c), i, f)
    IN  IF c1.err # Ok THEN Close(c1) ELSE Close(Commit(c1))

\* RollbackLast with the test that Migrate makes
doRollbackLast_hasMigrations(c, f) ==
    IF ~hasMigrations THEN Fail(c, ErrNoMigrationDefined)
    ELSE LET i == getLastRunMigration(c, Len(migrations))
             c1 == lastRunCounted(c, Len(migrations))
         IN  IF i = 0 THEN Fail(c1, ErrNoRunMigration)
             ELSE doRollbackMigration(c1, i, f)

doRollbackLast(c, f) ==
    IF Len(migrations) = 0 THEN Fail(c, ErrNoMigrationDefined)
    ELSE LET i == getLastRunMigration(c, Len(migrations))
             c1 == lastRunCounted(c, Len(migrations))
         IN  IF i = 0 THEN Fail(c1, ErrNoRunMigration)
             ELSE doRollbackMigration(c1, i, f)

\* the loop that stops after the migration named migrationID, not before it
RECURSIVE rollbackLoop_inclusive(_, _, _, _)
rollbackLoop_inclusive(c, i, migrationID, f) ==
    IF i < 1 THEN c
    ELSE IF migrationDidRun(c, migrations[i].ID)
         THEN LET c1 == rollbackMigration(c, i, f)
              IN  IF c1.err # Ok THEN c1
                  ELSE IF migrations[i].ID = migrationID THEN c1
                  ELSE rollbackLoop_inclusive(c1, i - 1, migrationID, f)
         ELSE IF migrations[i].ID = migrationID THEN c
         ELSE rollbackLoop_inclusive(c, i - 1, migrationID, f)

\* for i := len(x.migrations) - 1; i >= 0; i-- { ... } of RollbackTo
RECURSIVE rollbackLoop(_, _, _, _)
rollbackLoop(c, i, migrationID, f) ==
    IF i < 1 THEN c
    ELSE IF migrations[i].ID = migrationID THEN c
    ELSE IF migrationDidRun(c, migrations[i].ID)
         THEN LET c1 == rollbackMigration(counted(c, migrations[i].ID), i, f)
              IN  IF c1.err # Ok THEN c1
                  ELSE rollbackLoop(c1, i - 1, migrationID, f)
         ELSE rollbackLoop(counted(c, migrations[i].ID), i - 1, migrationID, f)

\* RollbackTo without the test of the empty list
doRollbackTo_noEmptyCheck(c, migrationID, f) ==
    IF checkIDExist(migrationID) # Ok THEN Fail(c, checkIDExist(migrationID))
    ELSE LET c1 == rollbackLoop(Begin(c), Len(migrations), migrationID, f)
         IN  IF c1.err # Ok THEN Close(c1) ELSE Close(Commit(c1))

doRollbackTo(c, migrationID, f) ==
    IF Len(migrations) = 0 THEN Fail(c, ErrNoMigrationDefined)
    ELSE IF checkIDExist(migrationID) # Ok THEN Fail(c, checkIDExist(migrationID))
    ELSE LET c1 == rollbackLoop(Begin(c), Len(migrations), migrationID, f)
         IN  IF c1.err # Ok THEN Close(c1) ELSE Close(Commit(c1))

doMigrate(c, f) ==
    IF ~hasMigrations THEN Fail(c, ErrNoMigrationDefined)
    ELSE migrate(c, IF Len(migrations) > 0 THEN migrations[Len(migrations)].ID ELSE "", f)

doMigrateTo(c, migrationID, f) ==
    IF checkIDExist(migrationID) # Ok THEN Fail(c, checkIDExist(migrationID))
    ELSE migrate(c, migrationID, f)

\* ------------------------------------------------------------- actions
\* the position of the migration whose function failed in the last call
FailedAt ==
    LET F == {k \in 1..Len(lastLog) : lastLog[k].ev = "Migrate" /\ ~lastLog[k].ok}
    IN  IF F = {} THEN 0 ELSE lastLog[CHOOSE k \in F : TRUE].pos

\* the call returned c
Returned(op, arg, pos, c) ==
    /\ store' = c.store
    /\ tableExists' = c.table
    /\ schema' = c.schema
    /\ lastOp' = op
    /\ lastArg' = arg
    /\ lastPos' = pos
    /\ lastErr' = c.err
    /\ lastLog' = c.log
    /\ storeBefore' = store
    /\ again' = (op = "Migrate" /\ lastOp = "Migrate" /\ lastErr = Ok)
    /\ resumed' = IF op = "Migrate" /\ lastOp = "Migrate" THEN FailedAt ELSE 0
    /\ UNCHANGED migrations

\* targets a caller may name: the identifiers of the registry, and one no
\* migration has
Targets == {migrations[i].ID : i \in 1..Len(migrations)} \cup {"Z"}

Init ==
    /\ migrations \in Registries
    /\ initSchema = FALSE
    /\ tableExists = FALSE
    /\ store = <<>>
    /\ schema = {}
    /\ lastOp = "New"
    /\ lastArg = ""
    /\ lastPos = 0
    /\ lastErr = Ok
    /\ lastLog = <<>>
    /\ storeBefore = store
    /\ again = FALSE
    /\ resumed = 0

\* x.InitSchema(fn) with fn # nil, Start is the call that changes nothing
InitSchema ==
    /\ ~initSchema
    /\ initSchema' = TRUE
    /\ Returned("InitSchema", "", 0, Start)

Migrate ==
    \E f \in Faults :
        /\ Returned("Migrate", "", 0, doMigrate(Start, f))
        /\ UNCHANGED initSchema

MigrateTo ==
    \E migrationID \in Targets, f \in Faults :
        /\ Returned("MigrateTo", migrationID, 0, doMigrateTo(Start, migrationID, f))
        /\ UNCHANGED initSchema

RollbackLast ==
    \E f \in Faults :
        /\ Returned("RollbackLast", "", 0, doRollbackLast(Start, f))
        /\ UNCHANGED initSchema

RollbackTo ==
    \E migrationID \in Targets, f \in Faults :
        /\ Returned("RollbackTo", migrationID, 0, doRollbackTo(Start, migrationID, f))
        /\ UNCHANGED initSchema

RollbackMigration ==
    \E i \in 1..Len(migrations), f \in Faults :
        /\ Returned("RollbackMigration", migrations[i].ID, i, doRollbackMigration(Start, i, f))
        /\ UNCHANGED initSchema

Next ==
    \/ InitSchema
    \/ Migrate
    \/ MigrateTo
    \/ RollbackLast
    \/ RollbackTo
    \/ RollbackMigration

Spec == Init /\ [][Next]_vars

\* ----------------------------------- a database that is not a fresh one
\* most rows the table holds when the engine is constructed
MaxInitRows == 2

\* identifiers of the rows found: of migrations, the reserved one, and one
\* no migration of the registry has
RowIDs == {"A", "B", initSchemaMigrationId, "Z"}

\* a registry that passes the checks of migrate and has no empty identifier
\* (InitStore takes the shorter ones, all with Rollback functions, and
\* varies the rows found instead)
WellFormed(r) ==
    \A i \in 1..Len(r) :
        /\ r[i].ID # ""
        /\ r[i].ID # initSchemaMigrationId
        /\ \A j \in 1..Len(r) : r[j].ID = r[i].ID => j = i

InitStore ==
    /\ migrations \in {r \in Registries :
                          /\ Len(r) < MaxMigs
                          /\ WellFormed(r)
                          /\ \A i \in 1..Len(r) : r[i].Rollback}
    /\ initSchema = FALSE
    /\ tableExists = TRUE
    /\ store \in UNION {[1..n -> RowIDs] : n \in 0..MaxInitRows}
    /\ schema = {}
    /\ lastOp = "New"
    /\ lastArg = ""
    /\ lastPos = 0
    /\ lastErr = Ok
    /\ lastLog = <<>>
    /\ storeBefore = store
    /\ again = FALSE
    /\ resumed = 0

SpecStore == InitStore /\ [][Next]_vars

\* ------------------------------ a registry that may hold the reserved ID
\* New checks nothing: the table found may hold the row of the reserved ID
\* while a migration of the list has that ID too
InitReserved ==
    /\ migrations \in {r \in Registries :
                          /\ Len(r) < MaxMigs
                          /\ \A i \in 1..Len(r) :
                                 /\ r[i].Rollback
                                 /\ r[i].ID # ""
                                 /\ \A j \in 1..Len(r) : r[j].ID = r[i].ID => j = i}
    /\ initSchema = FALSE
    /\ tableExists = TRUE
    /\ store \in UNION {[1..n -> RowIDs] : n \in 0..MaxInitRows}
    /\ schema = {}
    /\ lastOp = "New"
    /\ lastArg = ""
    /\ lastPos = 0
    /\ lastErr = Ok
    /\ lastLog = <<>>
    /\ storeBefore = store
    /\ again = FALSE
    /\ resumed = 0

SpecReserved == InitReserved /\ [][Next]_vars

\* ------------------------------------------- a database that can fail
\* the call on x.db that fails is among the first MaxDbCall of the operation
MaxDbCall == 4

\* an operation meets a failing database only while the table has fewer
\* rows than this
MaxRows == 3

DbFaults == {DbFault(k) : k \in 1..MaxDbCall}

MigrateDb ==
    \E f \in Faults \cup DbFaults :
        /\ Len(store) < MaxRows
        /\ Returned("Migrate", "", 0, doMigrate(StartWith(f), f))
        /\ UNCHANGED initSchema

MigrateToDb ==
    \E migrationID \in Targets, f \in Faults \cup DbFaults :
        /\ Len(store) < MaxRows
        /\ Returned("MigrateTo", migrationID, 0, doMigrateTo(StartWith(f), migrationID, f))
        /\ UNCHANGED initSchema

RollbackLastDb ==
    \E f \in Faults \cup DbFaults :
        /\ Len(store) < MaxRows
        /\ Returned("RollbackLast", "", 0, doRollbackLast(StartWith(f), f))
        /\ UNCHANGED initSchema

RollbackToDb ==
    \E migrationID \in Targets, f \in Faults \cup DbFaults :
        /\ Len(store) < MaxRows
        /\ Returned("RollbackTo", migrationID, 0, doRollbackTo(StartWith(f), migrationID, f))
        /\ UNCHANGED initSchema

RollbackMigrationDb ==
    \E i \in 1..Len(migrations), f \in Faults \cup DbFaults :
        /\ Len(store) < MaxRows
        /\ Returned("RollbackMigration", migrations[i].ID, i,
                    doRollbackMigration(StartWith(f), i, f))
        /\ UNCHANGED initSchema

InitDb ==
    /\ Init
    /\ WellFormed(migrations)
    /\ Len(migrations) < MaxMigs

NextDb ==
    \/ InitSchema
    \/ MigrateDb
    \/ MigrateToDb
    \/ RollbackLastDb
    \/ RollbackToDb
    \/ RollbackMigrationDb

SpecDb == InitDb /\ [][NextDb]_vars

\* =============================================================== claims
\* positions of the events of one kind in the log of the last call
Idx(e) == {k \in 1..Len(lastLog) : lastLog[k].ev = e}

\* positions of the calls of caller-supplied functions
FuncIdx == Idx("Migrate") \cup Idx("Rollback") \cup Idx("initSchema")

\* number of rows of s whose id is `id`
Rows(s, id) == Cardinality({k \in 1..Len(s) : s[k] = id})

\* the migration at position i has a row in s
Applied(s, i) == Rows(s, migrations[i].ID) > 0

InRegistry(id) == \E i \in 1..Len(migrations) : migrations[i].ID = id

HasReserved == InRegistry(initSchemaMigrationId)

HasDuplicate ==
    \E i, j \in 1..Len(migrations) : i < j /\ migrations[i].ID = migrations[j].ID

Max(S) == CHOOSE x \in S : \A y \in S : y <= x

\* the last migration of the registry that has a row in s, 0 if none has
LastApplied(s) ==
    IF \E i \in 1..Len(migrations) : Applied(s, i)
    THEN Max({i \in 1..Len(migrations) : Applied(s, i)})
    ELSE 0

\* where the backward scan of RollbackTo stops
LastPos(id) == Max({i \in 1..Len(migrations) : migrations[i].ID = id})

TypeOK ==
    /\ migrations \in Registries
    /\ initSchema \in BOOLEAN
    /\ tableExists \in BOOLEAN
    /\ store # <<>> => tableExists

\* C1: when the function of a migration fails in Migrate or MigrateTo, the
\* call returns that error and the table holds the rows it held before.
C1_FailedRunLeavesRows ==
    (/\ lastOp \in {"Migrate", "MigrateTo"}
     /\ \E k \in Idx("Migrate") : ~lastLog[k].ok)
    => (lastErr = FuncError /\ store = storeBefore)

\* C2: a Migrate right after a Migrate that returned nil, on a well-formed
\* registry, returns nil, calls no migration function and no initializer,
\* and leaves the rows as they were.
C2_MigrateTwice ==
    (again /\ WellFormed(migrations))
    => /\ lastErr = Ok
       /\ Idx("Migrate") = {}
       /\ Idx("initSchema") = {}
       /\ store = storeBefore

C2_Witness ==
    /\ again
    /\ WellFormed(migrations)
    /\ Len(migrations) = 2
    /\ lastErr = Ok
    /\ Head(store) = "Z"
    /\ \A i \in 1..2 : Applied(store, i)

\* C3: in a Migrate or MigrateTo that does not initialise the schema, the
\* migration functions are called in increasing registry position, each
\* successful one is followed at once by the insert of its row and rows are
\* inserted at no other time; a Migrate that returns nil on a registry without
\* applied migrations has appended one row per migration, in registry order.
C3_AppliedInOrder ==
    (lastOp \in {"Migrate", "MigrateTo"} /\ Idx("initSchema") = {})
    => /\ \A j, k \in Idx("Migrate") : j < k => lastLog[j].pos < lastLog[k].pos
       /\ \A k \in Idx("Migrate") :
              lastLog[k].ok =>
                  /\ k < Len(lastLog)
                  /\ lastLog[k + 1] = Event("Insert", 0, migrations[lastLog[k].pos].ID, TRUE)
       /\ \A k \in Idx("Insert") :
              /\ k > 1
              /\ lastLog[k - 1].ev = "Migrate"
              /\ lastLog[k - 1].ok
              /\ lastLog[k - 1].id = lastLog[k].id
       /\ (/\ lastOp = "Migrate"
           /\ lastErr = Ok
           /\ \A i \in 1..Len(migrations) : ~Applied(storeBefore, i))
          => store = storeBefore \o [i \in 1..Len(migrations) |-> migrations[i].ID]

C3_Witness ==
    /\ lastOp = "Migrate"
    /\ lastErr = Ok
    /\ Idx("initSchema") = {}
    /\ Len(migrations) = 3
    /\ storeBefore = <<>>
    /\ Cardinality(Idx("Migrate")) = 3
    /\ Len(store) = 3

\* C4: a Migrate that returns nil with an initializer set and no row in the
\* table has called the initializer once and no migration function, and
\* the table holds the reserved row and one row for each registry ID.
C4_FreshSchema ==
    (lastOp = "Migrate" /\ lastErr = Ok /\ initSchema /\ storeBefore = <<>>)
    => /\ Cardinality(Idx("initSchema")) = 1
       /\ Idx("Migrate") = {}
       /\ Len(store) = 1 + Len(migrations)
       /\ Rows(store, initSchemaMigrationId) = 1
       /\ \A i \in 1..Len(migrations) : Rows(store, migrations[i].ID) = 1

C4_Witness ==
    /\ lastOp = "Migrate"
    /\ lastErr = Ok
    /\ initSchema
    /\ storeBefore = <<>>
    /\ Len(migrations) = 2
    /\ Len(store) = 3
    /\ Idx("initSchema") # {}

\* nothing was called and nothing changed in the last call
Untouched == lastLog = <<>> /\ store = storeBefore

\* C5 as stated: with the reserved ID in the registry each of the five
\* operations fails with ReservedIDError before any function is called,
\* before the table is ensured to exist and without changing a row.
C5_AllOperationsValidate ==
    (/\ HasReserved
     /\ lastOp \in {"Migrate", "MigrateTo", "RollbackLast", "RollbackTo", "RollbackMigration"})
    => (lastErr = ReservedIDError(initSchemaMigrationId) /\ Untouched)

\* C5 as amended: with the reserved ID in the registry, Migrate, and
\* MigrateTo with a target that is in the registry, fail with
\* ReservedIDError before any function or database call and without
\* changing a row; MigrateTo with a target that is not in the registry
\* fails with ErrMigrationIDDoesNotExist, and the three rollback operations
\* never return ReservedIDError.
C5_MigrateValidatesFirst ==
    HasReserved
    => /\ (lastOp = "Migrate" \/ (lastOp = "MigrateTo" /\ InRegistry(lastArg)))
          => (lastErr = ReservedIDError(initSchemaMigrationId) /\ Untouched)
       /\ (lastOp = "MigrateTo" /\ ~InRegistry(lastArg))
          => (lastErr = ErrMigrationIDDoesNotExist /\ Untouched)
       /\ lastOp \in {"RollbackLast", "RollbackTo", "RollbackMigration"}
          => lastErr.kind # "ReservedIDError"

C5_Witness ==
    /\ HasReserved
    /\ Len(migrations) = 2
    /\ migrations[2].ID = initSchemaMigrationId
    /\ lastOp = "MigrateTo"
    /\ lastArg = "A"
    /\ lastErr = ReservedIDError(initSchemaMigrationId)
    /\ ~tableExists

\* the ID of the first migration, in list order, whose ID an earlier
\* migration has
FirstDuplicate ==
    LET dup == {j \in 1..Len(migrations) :
                    \E i \in 1..(j - 1) : migrations[i].ID = migrations[j].ID}
    IN  migrations[CHOOSE j \in dup : \A k \in dup : j <= k].ID

\* C6 as stated: with two migrations of one ID and no reserved ID, Migrate
\* and MigrateTo fail with DuplicatedIDError carrying the first duplicate,
\* call no function and write no row.
C6_DuplicateRejected ==
    (HasDuplicate /\ ~HasReserved /\ lastOp \in {"Migrate", "MigrateTo"})
    => (lastErr = DuplicatedIDError(FirstDuplicate) /\ Untouched)

\* C6 as amended: the same for Migrate and for MigrateTo with a target that
\* is in the registry; MigrateTo with a target that is not in the registry
\* fails with ErrMigrationIDDoesNotExist, also without calling a function
\* or writing a row.
C6_DuplicateRejectedForKnownTarget ==
    (HasDuplicate /\ ~HasReserved)
    => /\ (lastOp = "Migrate" \/ (lastOp = "MigrateTo" /\ InRegistry(lastArg)))
          => (lastErr = DuplicatedIDError(FirstDuplicate) /\ Untouched)
       /\ (lastOp = "MigrateTo" /\ ~InRegistry(lastArg))
          => (lastErr = ErrMigrationIDDoesNotExist /\ Untouched)

C6_Witness ==
    /\ Len(migrations) = 3
    /\ migrations[1].ID = "A"
    /\ migrations[2].ID = "B"
    /\ migrations[3].ID = "B"
    /\ lastOp = "Migrate"
    /\ lastErr = DuplicatedIDError("B")
    /\ store = <<>>

\* the rows of s whose id is not in ids, in their order
Keep(s, ids) == SelectSeq(s, LAMBDA r : r \notin ids)

DistinctIDs ==
    \A i, j \in 1..Len(migrations) : migrations[i].ID = migrations[j].ID => i = j

\* C7: RollbackLast, when the last applied migration of the registry has a
\* Rollback function, calls that function once and no other function; when
\* the function succeeds the call returns nil, the rows of that migration
\* are deleted and every other row (the reserved one too) stays in place.
C7_RollbackLastRevertsOne ==
    LET L == LastApplied(storeBefore) IN
    (/\ lastOp = "RollbackLast"
     /\ L > 0
     /\ migrations[L].Rollback)
    => /\ Cardinality(FuncIdx) = 1
       /\ \A k \in FuncIdx :
              /\ lastLog[k].ev = "Rollback"
              /\ lastLog[k].pos = L
              /\ lastLog[k].ok
                 => /\ lastErr = Ok
                    /\ store = Keep(storeBefore, {migrations[L].ID})
                    /\ Idx("Delete") # {}
                    /\ \A d \in Idx("Delete") : d > k /\ lastLog[d].id = migrations[L].ID

C7_Witness ==
    /\ lastOp = "RollbackLast"
    /\ lastErr = Ok
    /\ Len(migrations) = 3
    /\ storeBefore = <<initSchemaMigrationId, "A", "B", "C">>
    /\ store = <<initSchemaMigrationId, "A", "B">>

\* C8: RollbackTo with a target of a registry of distinct IDs calls
\* Rollback functions only, in decreasing registry position, only of
\* migrations after the target that had a row; when it returns nil it has
\* called the function of every such migration, the rows of the target
\* and of the migrations before it are as they were, and no migration
\* after the target has a row.
C8_RollbackToTarget ==
    LET T == LastPos(lastArg) IN
    (lastOp = "RollbackTo" /\ InRegistry(lastArg) /\ DistinctIDs)
    => /\ FuncIdx = Idx("Rollback")
       /\ \A j, k \in Idx("Rollback") : j < k => lastLog[j].pos > lastLog[k].pos
       /\ \A k \in Idx("Rollback") :
              lastLog[k].pos > T /\ Applied(storeBefore, lastLog[k].pos)
       /\ lastErr = Ok
          => /\ {lastLog[k].pos : k \in Idx("Rollback")}
                  = {i \in (T + 1)..Len(migrations) : Applied(storeBefore, i)}
             /\ \A i \in 1..T :
                    Rows(store, migrations[i].ID) = Rows(storeBefore, migrations[i].ID)
             /\ \A i \in (T + 1)..Len(migrations) : ~Applied(store, i)

C8_Witness ==
    /\ lastOp = "RollbackTo"
    /\ lastArg = "A"
    /\ lastErr = Ok
    /\ Len(migrations) = 3
    /\ DistinctIDs
    /\ storeBefore = <<"A", "B", "C">>
    /\ store = <<"A">>
    /\ Cardinality(Idx("Rollback")) = 2

\* the rollback of the migration at position j was refused
Refused(j) ==
    /\ lastErr = ErrRollbackImpossible
    /\ \A k \in FuncIdx : lastLog[k].pos # j
    /\ Rows(store, migrations[j].ID) = Rows(storeBefore, migrations[j].ID)

\* migrations after the target of RollbackTo that had a row and have no
\* Rollback function
Irreversible ==
    {i \in (LastPos(lastArg) + 1)..Len(migrations) :
        Applied(storeBefore, i) /\ ~migrations[i].Rollback}

\* C9: a rollback that reaches a migration without Rollback function
\* (RollbackMigration given it, RollbackLast finding it as the last applied
\* one, RollbackTo coming to it with every earlier Rollback function having
\* succeeded) fails with ErrRollbackImpossible, calls no function of that
\* migration and leaves its rows in the table.
C9_IrreversibleRefused ==
    /\ (lastOp = "RollbackMigration" /\ ~migrations[lastPos].Rollback)
       => Refused(lastPos)
    /\ (/\ lastOp = "RollbackLast"
        /\ LastApplied(storeBefore) > 0
        /\ ~migrations[LastApplied(storeBefore)].Rollback)
       => Refused(LastApplied(storeBefore))
    /\ (/\ lastOp = "RollbackTo"
        /\ InRegistry(lastArg)
        /\ DistinctIDs
        /\ Irreversible # {}
        /\ \A k \in Idx("Rollback") : lastLog[k].ok)
       => Refused(Max(Irreversible))

C9_Witness ==
    /\ lastOp = "RollbackTo"
    /\ lastArg = "A"
    /\ Len(migrations) = 3
    /\ ~migrations[2].Rollback
    /\ storeBefore = <<"A", "B", "C">>
    /\ store = <<"A", "B">>
    /\ lastErr = ErrRollbackImpossible

\* in the last call, a MigrateTo, the migration functions called are of
\* migrations up to the target that had no row, and the migrations after
\* the target got no row
StoppedAtTarget ==
    LET T == FirstPos(migrations, lastArg) IN
    /\ \A k \in Idx("Migrate") :
           lastLog[k].pos <= T /\ ~Applied(storeBefore, lastLog[k].pos)
    /\ \A i \in (T + 1)..Len(migrations) :
           /\ \A k \in Idx("Insert") : lastLog[k].id # migrations[i].ID
           /\ Rows(store, migrations[i].ID) = Rows(storeBefore, migrations[i].ID)

\* C10 as stated: MigrateTo with a target of the registry calls migration
\* functions only for migrations up to the target that were not applied,
\* and creates no row for a migration after the target.
C10_MigrateToStops ==
    (lastOp = "MigrateTo" /\ InRegistry(lastArg)) => StoppedAtTarget

\* C10 as amended: the same for a MigrateTo that does not initialise the
\* schema; one that does (initializer set, no row in the table) calls no
\* migration function and, when the initializer succeeds, inserts a row
\* for every migration of the registry, those after the target too.
C10_MigrateToStopsUnlessFresh ==
    (lastOp = "MigrateTo" /\ InRegistry(lastArg))
    => /\ Idx("initSchema") = {} => StoppedAtTarget
       /\ Idx("initSchema") # {}
          => /\ Idx("Migrate") = {}
             /\ initSchema /\ storeBefore = <<>>
             /\ lastErr = Ok
                => \A i \in 1..Len(migrations) :
                       \E k \in Idx("Insert") : lastLog[k].id = migrations[i].ID

C10_Witness ==
    /\ lastOp = "MigrateTo"
    /\ lastArg = "B"
    /\ lastErr = Ok
    /\ Len(migrations) = 3
    /\ storeBefore = <<"A">>
    /\ store = <<"A", "B">>
    /\ Cardinality(Idx("Migrate")) = 1

\* C11: MigrateTo and RollbackTo on a registry that is not empty and has no
\* migration of the given ID fail with ErrMigrationIDDoesNotExist; nothing
\* is called, no session is begun, the table is not touched and the rows
\* are as they were.
C11_UnknownTargetRejected ==
    (/\ lastOp \in {"MigrateTo", "RollbackTo"}
     /\ Len(migrations) > 0
     /\ ~InRegistry(lastArg))
    => /\ lastErr = ErrMigrationIDDoesNotExist
       /\ FuncIdx = {}
       /\ Idx("Begin") = {}
       /\ Idx("Sync2") = {}
       /\ lastLog = <<>>
       /\ store = storeBefore

C11_Witness ==
    /\ lastOp = "RollbackTo"
    /\ lastArg = "Z"
    /\ Len(migrations) = 3
    /\ store = <<"A", "B", "C">>
    /\ storeBefore = store
    /\ lastErr = ErrMigrationIDDoesNotExist

\* the table held a row that is neither the reserved one nor of a
\* migration of the registry when the last call began
UnknownRowBefore ==
    \E k \in 1..Len(storeBefore) :
        storeBefore[k] # initSchemaMigrationId /\ ~InRegistry(storeBefore[k])

\* C12: a Migrate on a registry that is not empty that finds a row of an ID
\* that is neither reserved nor in the registry fails with an
\* unknown-past-migration error, calls no migration function and no
\* initializer, and writes no row.
C12_UnknownHistoryRejected ==
    (lastOp = "Migrate" /\ Len(migrations) > 0 /\ UnknownRowBefore)
    => /\ lastErr.kind = "ErrUnknownPastMigration"
       /\ FuncIdx = {}
       /\ store = storeBefore

\* C13: when a call on the record store fails in a top-level operation
\* (the counts too), the operation returns an error and calls no migration,
\* rollback or initializer function after the failure.
C13_StorageFailureReturned ==
    \A k \in 1..Len(lastLog) :
        (lastLog[k].ev \in DbEvents /\ ~lastLog[k].ok)
        => /\ lastErr # Ok
           /\ \A j \in (k + 1)..Len(lastLog) :
                  lastLog[j].ev \notin {"Migrate", "Rollback", "initSchema"}

\* C14: a RollbackTo that fails leaves the rows the table held before the
\* call, those of the migrations it had already rolled back too.
C14_RollbackToAllOrNothing ==
    (lastOp = "RollbackTo" /\ lastErr # Ok) => store = storeBefore

\* C15: Migrate fails with ErrNoMigrationDefined exactly when the list is
\* empty and no InitSchema function is set, and then calls nothing and
\* changes no row; with an empty list and an InitSchema function, Migrate
\* on an empty table returns nil, calls the function once and leaves the
\* row of the reserved ID alone in the table.
C15_NoMigrationDefined ==
    lastOp = "Migrate"
    => /\ lastErr = ErrNoMigrationDefined
          <=> (Len(migrations) = 0 /\ ~initSchema)
       /\ lastErr = ErrNoMigrationDefined => Untouched
       /\ (/\ Len(migrations) = 0
           /\ initSchema
           /\ storeBefore = <<>>
           /\ \A k \in FuncIdx : lastLog[k].ok)
          => /\ lastErr = Ok
             /\ Cardinality(Idx("initSchema")) = 1
             /\ store = <<initSchemaMigrationId>>

C15_Witness ==
    /\ lastOp = "Migrate"
    /\ Len(migrations) = 0
    /\ initSchema
    /\ storeBefore = <<>>
    /\ store = <<initSchemaMigrationId>>
    /\ lastErr = Ok

C15_WitnessRefused ==
    /\ lastOp = "Migrate"
    /\ lastErr = ErrNoMigrationDefined

\* the error of the other of RollbackTo and MigrateTo, called with the
\* target of the last call
OtherErr ==
    IF lastOp = "RollbackTo" THEN doMigrateTo(Start, lastArg, NoFault).err
    ELSE doRollbackTo(Start, lastArg, NoFault).err

\* C16 as stated: for every list, the empty one too, and every target,
\* RollbackTo returns ErrNoMigrationDefined iff MigrateTo does, and
\* ErrMigrationIDDoesNotExist iff MigrateTo does.
C16_SamePreconditionErrors ==
    lastOp \in {"RollbackTo", "MigrateTo"}
    => /\ lastErr = ErrNoMigrationDefined <=> OtherErr = ErrNoMigrationDefined
       /\ lastErr = ErrMigrationIDDoesNotExist
          <=> OtherErr = ErrMigrationIDDoesNotExist

\* C16 as amended: on a list that is not empty neither returns
\* ErrNoMigrationDefined and each returns ErrMigrationIDDoesNotExist iff the
\* target is not in the list; on the empty list RollbackTo returns
\* ErrNoMigrationDefined and MigrateTo returns ErrMigrationIDDoesNotExist.
C16_SameErrorsUnlessEmpty ==
    lastOp \in {"RollbackTo", "MigrateTo"}
    => /\ Len(migrations) > 0
          => /\ lastErr # ErrNoMigrationDefined
             /\ OtherErr # ErrNoMigrationDefined
             /\ lastErr = ErrMigrationIDDoesNotExist <=> ~InRegistry(lastArg)
             /\ OtherErr = ErrMigrationIDDoesNotExist <=> ~InRegistry(lastArg)
       /\ Len(migrations) = 0
          => /\ lastOp = "RollbackTo"
                => /\ lastErr = ErrNoMigrationDefined
                   /\ OtherErr = ErrMigrationIDDoesNotExist
             /\ lastOp = "MigrateTo"
                => /\ lastErr = ErrMigrationIDDoesNotExist
                   /\ OtherErr = ErrNoMigrationDefined

C16_Witness ==
    /\ lastOp = "RollbackTo"
    /\ Len(migrations) > 0
    /\ lastErr = ErrMigrationIDDoesNotExist
    /\ OtherErr = ErrMigrationIDDoesNotExist

\* the calls of the function of the migration at position i in the last call
MigrateCalls(i) == {k \in Idx("Migrate") : lastLog[k].pos = i}

\* what a Migrate that resumes after a failed one does
Resumes ==
    /\ lastErr = Ok
    /\ \A i \in 1..Len(migrations) :
           Applied(storeBefore, i) => MigrateCalls(i) = {}
    /\ \A i \in resumed..Len(migrations) :
           ~Applied(storeBefore, i) => Cardinality(MigrateCalls(i)) = 1
    /\ MigrateCalls(resumed) # {}
    /\ \A j, k \in Idx("Migrate") : j < k => lastLog[j].pos < lastLog[k].pos
    /\ \A i \in 1..Len(migrations) : Applied(store, i)

\* C17 as stated: a Migrate right after a Migrate in which the function of
\* the migration at position k failed, and in which every function
\* succeeds, returns nil, calls no function of a migration that had a row,
\* calls the functions of k and of the later migrations without a row in
\* registry order, and leaves a row for every migration.
C17_SafeResume ==
    (resumed > 0 /\ \A k \in FuncIdx : lastLog[k].ok) => Resumes

\* C17 as amended: the same, when no migration has an empty ID.
C17_SafeResumeWithIDs ==
    (/\ resumed > 0
     /\ \A k \in FuncIdx : lastLog[k].ok
     /\ ~InRegistry(""))
    => Resumes

C17_Witness ==
    /\ resumed = 2
    /\ Len(migrations) = 3
    /\ ~InRegistry("")
    /\ storeBefore = <<migrations[1].ID>>
    /\ Cardinality(Idx("Migrate")) = 2
    /\ lastErr = Ok
    /\ Len(store) = 3

\* C18: in RollbackLast, RollbackTo and RollbackMigration the rows of a
\* migration are deleted only right after its Rollback function returned
\* nil in the same call; when a Rollback function fails the call returns
\* that error, the rows of the migration are still in the table and no
\* other migration is rolled back after it.
C18_RollbackThenDelete ==
    lastOp \in {"RollbackLast", "RollbackTo", "RollbackMigration"}
    => /\ \A k \in Idx("Delete") :
              /\ k > 1
              /\ lastLog[k - 1].ev = "Rollback"
              /\ lastLog[k - 1].ok
              /\ lastLog[k - 1].id = lastLog[k].id
       /\ \A id \in IDs \cup {"Z"} :
              Rows(store, id) # Rows(storeBefore, id)
              => \E k \in Idx("Rollback") : lastLog[k].ok /\ lastLog[k].id = id
       /\ \A k \in Idx("Rollback") :
              ~lastLog[k].ok
              => /\ lastErr = FuncError
                 /\ Rows(store, lastLog[k].id) = Rows(storeBefore, lastLog[k].id)
                 /\ lastOp # "RollbackMigration" => Rows(store, lastLog[k].id) > 0
                 /\ \A j \in (k + 1)..Len(lastLog) :
                        lastLog[j].ev \notin {"Rollback", "Delete"}

C18_Witness ==
    /\ lastOp = "RollbackTo"
    /\ storeBefore = <<"A", "B", "C">>
    /\ store = <<"A", "B">>
    /\ lastErr = FuncError
    /\ \E k \in Idx("Rollback") : ~lastLog[k].ok /\ lastLog[k].id = "B"
    /\ \E k \in Idx("Delete") : lastLog[k].id = "C"

\* the position of the first migration with an empty ID, 0 if there is none
EmptyAt == FirstPos(migrations, "")

\* the loop of the last Migrate or MigrateTo came to the migration with the
\* empty ID: the validation passed, the schema was not initialised, the
\* target is not before it and every function called before it returned nil
ReachedEmpty ==
    /\ lastOp \in {"Migrate", "MigrateTo"}
    /\ EmptyAt > 0
    /\ ~HasReserved
    /\ ~HasDuplicate
    /\ Idx("initSchema") = {}
    /\ lastOp = "MigrateTo"
       => (InRegistry(lastArg) /\ FirstPos(migrations, lastArg) >= EmptyAt)
    /\ \A k \in Idx("Migrate") : lastLog[k].ok

\* C19: when the loop of Migrate or MigrateTo comes to a migration with an
\* empty ID the call returns ErrMissingID, does not call the function of
\* that migration and inserts no row with an empty ID; every migration
\* before it has a row, its function called iff it had none, and no
\* migration after it is run or recorded.
C19_MissingID ==
    ReachedEmpty
    => /\ lastErr = ErrMissingID
       /\ MigrateCalls(EmptyAt) = {}
       /\ \A k \in Idx("Insert") : lastLog[k].id # ""
       /\ Rows(store, "") = Rows(storeBefore, "")
       /\ \A i \in 1..(EmptyAt - 1) :
              /\ Applied(store, i)
              /\ MigrateCalls(i) # {} <=> ~Applied(storeBefore, i)
       /\ \A i \in (EmptyAt + 1)..Len(migrations) :
              /\ MigrateCalls(i) = {}
              /\ Rows(store, migrations[i].ID) = Rows(storeBefore, migrations[i].ID)

C19_Witness ==
    /\ ReachedEmpty
    /\ Len(migrations) = 3
    /\ EmptyAt = 2
    /\ storeBefore = <<>>
    /\ store = <<migrations[1].ID>>
    /\ lastErr = ErrMissingID

\* C20: RollbackLast returns ErrNoMigrationDefined when the list is empty,
\* with an InitSchema function set too, and ErrNoRunMigration when the list
\* is not empty and no migration of it has a row, with the row of the
\* reserved ID in the table too; in both cases no Rollback function is
\* called and no row is changed.
C20_RollbackLastRefuses ==
    lastOp = "RollbackLast"
    => /\ Len(migrations) = 0
          => (lastErr = ErrNoMigrationDefined /\ Untouched)
       /\ (/\ Len(migrations) > 0
           /\ \A i \in 1..Len(migrations) : ~Applied(storeBefore, i))
          => /\ lastErr = ErrNoRunMigration
             /\ Idx("Rollback") = {}
             /\ Idx("Delete") = {}
             /\ store = storeBefore

C20_Witness ==
    /\ lastOp = "RollbackLast"
    /\ Len(migrations) > 0
    /\ storeBefore = <<initSchemaMigrationId>>
    /\ store = storeBefore
    /\ lastErr = ErrNoRunMigration

C20_WitnessEmpty ==
    /\ lastOp = "RollbackLast"
    /\ Len(migrations) = 0
    /\ initSchema
    /\ lastErr = ErrNoMigrationDefined

\* C21: after every call, whatever it returned, a migration has a row iff
\* the effect of its Migrate function is committed and not reverted, and
\* the row of the reserved ID is in the table only if the effect of the
\* InitSchema function is committed. (Stated for the tables that no
\* InitSchema function has filled, where every row stands for a Migrate
\* function that ran.)
C21_RecordsMatchEffects ==
    /\ (~initSchema /\ DistinctIDs)
       => \A i \in 1..Len(migrations) :
              Applied(store, i) <=> migrations[i].ID \in schema
    /\ ~HasReserved
       => (Rows(store, initSchemaMigrationId) > 0
           => initSchemaMigrationId \in schema)

\* C22 as stated: the InitSchema function is called only by a call that
\* found no row in the table, and a call that found the row of the reserved
\* ID, whatever it is and whatever rows the rollbacks before it have
\* deleted, neither calls the InitSchema function nor deletes that row.
C22_InitializerGuard ==
    /\ Idx("initSchema") # {} => storeBefore = <<>>
    /\ (/\ lastOp \in {"Migrate", "MigrateTo", "RollbackLast", "RollbackTo"}
        /\ Rows(storeBefore, initSchemaMigrationId) > 0)
       => /\ Idx("initSchema") = {}
          /\ Rows(store, initSchemaMigrationId) = Rows(storeBefore, initSchemaMigrationId)

\* C22 as amended: the same, the row of the reserved ID being kept when no
\* migration of the list has the reserved ID.
C22_InitializerGuardUnlessReserved ==
    /\ Idx("initSchema") # {} => storeBefore = <<>>
    /\ Rows(storeBefore, initSchemaMigrationId) > 0
       => /\ Idx("initSchema") = {}
          /\ ~HasReserved
             => Rows(store, initSchemaMigrationId)
                    = Rows(storeBefore, initSchemaMigrationId)

C22_Witness ==
    /\ lastOp = "Migrate"
    /\ initSchema
    /\ Len(migrations) = 2
    /\ storeBefore = <<initSchemaMigrationId>>
    /\ Cardinality(Idx("Migrate")) = 2
    /\ Idx("initSchema") = {}
    /\ lastErr = Ok
    /\ Head(store) = initSchemaMigrationId

\* C23: on a table that was empty when the list was given, after any
\* calls every row has the reserved ID or the ID of a migration of the
\* list, and no two rows have the same ID.
C23_StoreWellFormed ==
    /\ \A k \in 1..Len(store) :
           store[k] = initSchemaMigrationId \/ InRegistry(store[k])
    /\ \A j, k \in 1..Len(store) : store[j] = store[k] => j = k
====
